---- MODULE Spec2Model ----
(***************************************************************************)
(* A model of the exam grading pipeline of src/main.py: the objective      *)
(* grader, the writing evaluator, the speaking evaluator and the           *)
(* submit_exam handler that runs them for one submission, or for two       *)
(* submissions interleaved at their awaits.                                *)
(*                                                                         *)
(* Python strings are TLA+ strings; a character is a string of length 1.   *)
(* An optional string (str or None) is a sequence of length 0 (None) or 1. *)
(***************************************************************************)
EXTENDS Integers, Sequences, FiniteSets, TLC

VARIABLES
    HF_TOKEN,            \* module-level credential, read once at start-up
    listening_answers,   \* grade_objective_questions: first argument
    reading_answers,     \* grade_objective_questions: second argument
    objective_results,   \* grade_objective_questions: returned dict (None before)
    o_pc,                \* "call" before the call, "returned" after it
    writing_text,        \* grade_writing_with_ai: its argument
    w_pc,                \* grade_writing_with_ai: where the coroutine stands
    writing_feedback,    \* grade_writing_with_ai: returned value (None before)
    w_requests,          \* URLs grade_writing_with_ai has posted to, in order
    w_responses,         \* what each of these requests ended in, in order
    audio_url,           \* grade_speaking_with_ai: its argument
    s_pc,                \* grade_speaking_with_ai: where the coroutine stands
    speaking_feedback,   \* grade_speaking_with_ai: returned string (None before)
    transcript,          \* grade_speaking_with_ai: the local variable transcript
    s_calls,             \* the network requests it has issued, in order
    s_responses,         \* what each of these requests ended in, in order
    student_name,        \* submit_exam: form field (str or None)
    student_email,       \* submit_exam: form field (str or None)
    submit_pc,           \* submit_exam: where the handler stands
    results,             \* submit_exam: the compiled results dict (None before)
    email_sent,          \* submit_exam: what send_email_report returned (None before)
    response,            \* submit_exam: the JSONResponse returned (None before)
    suspended            \* the locals of a second submission whose handler is
                         \* suspended at an await (None when there is none)

objVars == <<listening_answers, reading_answers, objective_results, o_pc>>

writingVars == <<writing_text, w_pc, writing_feedback, w_requests, w_responses>>

speakingVars ==
    <<audio_url, s_pc, speaking_feedback, transcript, s_calls, s_responses>>

submitVars ==
    <<student_name, student_email, submit_pc, results, email_sent, response>>

vars == <<HF_TOKEN, objVars, writingVars, speakingVars, submitVars, suspended>>

(***************************************************************************)
(* Bounds of the model.                                                    *)
(***************************************************************************)
\* how many answers beyond the 5 listening / 10 reading questions a list may hold
MaxExtra == 1
\* the longest generated writing sample, in words
MaxWords == 300
\* the longest generated writing sample of one-word sentences, in sentences
MaxSentences == 21

(***************************************************************************)
(* Python values.                                                          *)
(***************************************************************************)
None == <<>>
Some(s) == <<s>>

\* `x or ""` for an optional string x
OrEmpty(x) == IF x = None THEN "" ELSE x[1]

Char(s, i) == SubSeq(s, i, i)

UpperLetters == "ABCDEFGHIJKLMNOPQRSTUVWXYZ"
LowerLetters == "abcdefghijklmnopqrstuvwxyz"

\* str.isspace() for one character (the ASCII whitespace TLA+ can write)
IsSpace(c) == c \in {" ", "\t", "\n", "\r", "\f"}

LowerTable ==
    [c \in {Char(UpperLetters, k) : k \in 1..Len(UpperLetters)} |->
        Char(LowerLetters, CHOOSE k \in 1..Len(UpperLetters) : Char(UpperLetters, k) = c)]

UpperTable ==
    [c \in {Char(LowerLetters, k) : k \in 1..Len(LowerLetters)} |->
        Char(UpperLetters, CHOOSE k \in 1..Len(LowerLetters) : Char(LowerLetters, k) = c)]

LowerChar(c) == IF c \in DOMAIN LowerTable THEN LowerTable[c] ELSE c

UpperChar(c) == IF c \in DOMAIN UpperTable THEN UpperTable[c] ELSE c

RECURSIVE lower_from(_, _)
\* the characters of s from index i on, in lower case
lower_from(s, i) ==
    IF i > Len(s) THEN "" ELSE LowerChar(Char(s, i)) \o lower_from(s, i + 1)

\* str.lower() (s is evaluated once)
lower(s) == CHOOSE r \in {lower_from(v, 1) : v \in {s}} : TRUE

RECURSIVE upper_from(_, _)
\* the characters of s from index i on, in upper case
upper_from(s, i) ==
    IF i > Len(s) THEN "" ELSE UpperChar(Char(s, i)) \o upper_from(s, i + 1)

\* str.upper()
upper(s) == upper_from(s, 1)

RECURSIVE lstrip(_)
lstrip(s) ==
    IF s # "" /\ IsSpace(Char(s, 1)) THEN lstrip(SubSeq(s, 2, Len(s))) ELSE s

RECURSIVE rstrip(_)
rstrip(s) ==
    IF s # "" /\ IsSpace(Char(s, Len(s))) THEN rstrip(SubSeq(s, 1, Len(s) - 1)) ELSE s

\* str.strip() (s and s.lstrip() are evaluated once)
strip(s) == CHOOSE r \in {rstrip(v) : v \in {lstrip(u) : u \in {s}}} : TRUE

Digits == "0123456789"

RECURSIVE str_int(_)
\* str(n) for an integer n >= 0
str_int(n) ==
    IF n < 10 THEN Char(Digits, n + 1)
    ELSE str_int(n \div 10) \o Char(Digits, (n % 10) + 1)

\* `sub in s`
Contains(s, sub) ==
    \E k \in 1..(Len(s) - Len(sub) + 1) : SubSeq(s, k, k + Len(sub) - 1) = sub

\* len(s.split()): str.split() returns the maximal runs of non-whitespace
\* characters, one for every index where such a run starts
len_split(s) ==
    Cardinality({i \in 1..Len(s) :
        /\ ~IsSpace(Char(s, i))
        /\ (i = 1 \/ IsSpace(Char(s, i - 1)))})

\* len([x for x in s.split(sep) if x.strip()]) for a one-character sep:
\* s.split(sep) returns the segments between consecutive separators (and the two
\* ends of s); a segment is kept when it holds a non-whitespace character
len_split_nonblank(s, sep) ==
    LET cuts == {0, Len(s) + 1} \cup {i \in 1..Len(s) : Char(s, i) = sep}
    IN  Cardinality({a \in cuts \ {Len(s) + 1} :
            LET b == CHOOSE c \in cuts : c > a /\ \A d \in cuts : d > a => c <= d
            IN  \E i \in (a + 1)..(b - 1) : ~IsSpace(Char(s, i))})

\* f"{x:.1f}" for x = n / 4 with n >= 0: the nearest tenth, ties to even
\* (n / 4 is exact in binary floating point, so the tie is a real tie)
format_quarters_1f(n) ==
    LET q == (n * 10) \div 4
        r == (n * 10) % 4
        tenths == IF r < 2 THEN q
                  ELSE IF r > 2 THEN q + 1
                  ELSE IF q % 2 = 0 THEN q ELSE q + 1
    IN  str_int(tenths \div 10) \o "." \o str_int(tenths % 10)

\* dict.get(key, default) for a dict modelled as a function on its keys
DictGet(d, key, default) == IF key \in DOMAIN d THEN d[key] ELSE default

(***************************************************************************)
(* grade_objective_questions                                               *)
(***************************************************************************)
correct_answers ==
    [q1 |-> "Smith", q2 |-> "555-1234", q3 |-> "Toothache", q4 |-> "Tuesday",
     q5 |-> "10:00",
     r1 |-> "B", r2 |-> "B", r3 |-> "B", r4 |-> "B", r5 |-> "B",
     r6 |-> "accessible", r7 |-> "weight", r8 |-> "injuries", r9 |-> "stress",
     r10 |-> "natural"]

total_objective_questions == 15

\* f"q{i+1}" / f"r{i+1}" for the i-th element of enumerate(), here p = i + 1
q_key(prefix, p) == prefix \o str_int(p)

\* user_ans = (ans or ""): the surrounding whitespace is kept
user_ans_no_strip(ans) == OrEmpty(ans)

\* user_ans = (ans or "").strip()
user_ans(ans) == strip(OrEmpty(ans))

\* is_correct = user_ans == correct_answers.get(q_key, ""): no case folding
is_correct_case_sensitive(prefix, p, ans) ==
    user_ans(ans) = DictGet(correct_answers, q_key(prefix, p), "")

\* is_correct = user_ans.lower() == correct_answers.get(q_key, "").lower()
is_correct(prefix, p, ans) ==
    \E u \in {user_ans(ans)}, k \in {DictGet(correct_answers, q_key(prefix, p), "")} :
        lower(u) = lower(k)

\* the dict one loop builds: q_key -> {"answer": user_ans, "correct": is_correct}
section_results(prefix, answers) ==
    [k \in {q_key(prefix, p) : p \in 1..Len(answers)} |->
        CHOOSE r \in {[answer |-> user_ans(answers[p]),
                       correct |-> is_correct(prefix, p, answers[p])]
                          : p \in {q \in 1..Len(answers) : q_key(prefix, q) = k}} : TRUE]

RECURSIVE section_score(_, _, _, _)
\* the loop's running objective_score after the first n answers, starting at acc
section_score(prefix, answers, n, acc) ==
    IF n = 0 THEN acc
    ELSE LET before == section_score(prefix, answers, n - 1, acc)
         IN  IF is_correct(prefix, n, answers[n]) THEN before + 1 ELSE before

grade_objective_questions(la, ra) ==
    [score |-> section_score("r", ra, Len(ra), section_score("q", la, Len(la), 0)),
     total |-> total_objective_questions,
     listening_results |-> section_results("q", la),
     reading_results |-> section_results("r", ra)]

(***************************************************************************)
(* The inputs of grade_objective_questions: lists of optional strings.     *)
(* A list repeats one kind of answer (the key itself, the key with other   *)
(* case and surrounding whitespace, or no answer) and differs from it in   *)
(* at most one position.                                                   *)
(***************************************************************************)
\* submit_exam passes [q1..q5] and [r1..r10]
NumListening == 5
NumReading == 10

KeyAt(prefix, p) == DictGet(correct_answers, q_key(prefix, p), "")

Mangled(k) == " " \o upper(k) \o "\t\n"

AnswerVariants(k) ==
    {None, Some(""), Some(" \t"), Some(k), Some(lower(k)), Some(Mangled(k)),
     Some("x"), Some(k \o "x"), Some("x " \o k)}

BaseKinds == {"key", "mangled", "none"}

BaseAnswer(kind, k) ==
    CASE kind = "key" -> Some(k)
      [] kind = "mangled" -> Some(Mangled(k))
      [] kind = "none" -> None

AnswerList(prefix, n, kind, d, v) ==
    [p \in 1..n |-> IF p = d THEN v ELSE BaseAnswer(kind, KeyAt(prefix, p))]

\* the lengths a list may have: empty, as submit_exam builds it, or longer
Lengths(num) == {0} \cup (num..(num + MaxExtra))

PlainList(prefix, n, kind) == AnswerList(prefix, n, kind, 0, None)

\* pairs <<listening_answers, reading_answers>>
ObjectiveInputs ==
    UNION {
        {<<PlainList("q", nl, kind), PlainList("r", nr, kind)>>}
        \cup
        {<<AnswerList("q", nl, kind, d, v), PlainList("r", nr, kind)>> :
            <<d, v>> \in UNION {{<<d, v>> : v \in AnswerVariants(KeyAt("q", d))} : d \in 1..nl}}
        \cup
        {<<PlainList("q", nl, kind), AnswerList("r", nr, kind, d, v)>> :
            <<d, v>> \in UNION {{<<d, v>> : v \in AnswerVariants(KeyAt("r", d))} : d \in 1..nr}}
        : <<nl, nr, kind>> \in Lengths(NumListening) \X Lengths(NumReading) \X BaseKinds}

IdleSpeaking ==
    /\ audio_url = None
    /\ s_pc = "idle"
    /\ speaking_feedback = None
    /\ transcript = [t |-> "null"]
    /\ s_calls = <<>>
    /\ s_responses = <<>>

IdleWriting ==
    /\ writing_text = None
    /\ w_pc = "idle"
    /\ writing_feedback = None
    /\ w_requests = <<>>
    /\ w_responses = <<>>

IdleObjective ==
    /\ listening_answers = <<>>
    /\ reading_answers = <<>>
    /\ objective_results = None
    /\ o_pc = "idle"

\* no submission is being handled: the evaluator is called on its own
IdleSubmit ==
    /\ student_name = None
    /\ student_email = None
    /\ submit_pc = "idle"
    /\ results = None
    /\ email_sent = None
    /\ response = None
    /\ suspended = None

InitObjective ==
    /\ HF_TOKEN = None
    /\ \E in \in ObjectiveInputs :
          /\ listening_answers = in[1]
          /\ reading_answers = in[2]
    /\ objective_results = None
    /\ o_pc = "call"
    /\ IdleWriting
    /\ IdleSpeaking
    /\ IdleSubmit

\* objective_results = grade_objective_questions(listening_answers, reading_answers)
GradeObjective ==
    /\ o_pc = "call"
    /\ objective_results' = Some(grade_objective_questions(listening_answers, reading_answers))
    /\ o_pc' = "returned"
    /\ UNCHANGED <<HF_TOKEN, suspended, submitVars, listening_answers, reading_answers, writingVars, speakingVars>>

NextObjective == GradeObjective

SpecObjective == InitObjective /\ [][NextObjective]_vars

(***************************************************************************)
(* HTTP responses and their JSON bodies.  A JSON value is a record of its  *)
(* type t and its content; "invalid" is a body resp.json() cannot parse.   *)
(***************************************************************************)
JStr(s) == [t |-> "str", s |-> s]
JNum(n) == [t |-> "num", n |-> n]
JNull == [t |-> "null"]
JList(items) == [t |-> "list", items |-> items]
JDict(fields) == [t |-> "dict", fields |-> fields]
\* a body that is no JSON: resp.json() raises, resp.text is the raw text
JInvalid == [t |-> "invalid", raw |-> "<html>Bad Gateway</html>"]
\* the content of an audio file
AudioBytes == [t |-> "bytes"]

\* the request raised (connection error, timeout) instead of answering;
\* error is str(e)
Raised == [kind |-> "exception", status |-> 0, body |-> JInvalid, error |-> "timed out"]
Http(status, body) == [kind |-> "http", status |-> status, body |-> body, error |-> ""]

\* str(e) of the exception resp.json() raises on a body that is no JSON
MSG_JSON_DECODE == "Expecting value: line 1 column 1 (char 0)"

\* bool(x) for a JSON value
Truthy(j) ==
    CASE j.t = "str" -> j.s # ""
      [] j.t = "num" -> j.n # 0
      [] j.t = "null" -> FALSE
      [] j.t = "list" -> Len(j.items) > 0
      [] j.t = "dict" -> DOMAIN j.fields # {}
      [] OTHER -> FALSE

(***************************************************************************)
(* provide_local_writing_feedback                                          *)
(***************************************************************************)
Min(a, b) == IF a <= b THEN a ELSE b

\* word_count = len(writing_text.split())
word_count(text) == len_split(text)

\* sentence_count = len([s for s in writing_text.split('.') if s.strip()])
sentence_count(text) == len_split_nonblank(text, ".")

\* the same score without the cap of 9
grammar_score_uncapped(wc) == 4 + wc \div 50

grammar_score(wc) == Min(9, 4 + wc \div 50)
vocabulary_score(wc) == Min(9, 4 + wc \div 40)
coherence_score(sc) == Min(9, 3 + sc \div 3)
task_score(wc) == Min(9, 5 + (wc \div 30))

provide_local_writing_feedback(text) ==
    LET wc == word_count(text)
        sc == sentence_count(text)
        g == grammar_score(wc)
        v == vocabulary_score(wc)
        c == coherence_score(sc)
        t == task_score(wc)
    IN  "AUTOMATED WRITING ASSESSMENT (Local Analysis)\n"
        \o "==========================================\n"
        \o "Word Count: " \o str_int(wc) \o " words\n"
        \o "Sentence Count: " \o str_int(sc) \o " sentences\n\n"
        \o "Scores:\n"
        \o "- Grammar: " \o str_int(g) \o "/9\n"
        \o "- Vocabulary: " \o str_int(v) \o "/9\n"
        \o "- Coherence: " \o str_int(c) \o "/9\n"
        \o "- Task Achievement: " \o str_int(t) \o "/9\n\n"
        \o "Average Score: " \o format_quarters_1f(g + v + c + t) \o "/9\n\n"
        \o "Note: This is an automated assessment based on word/sentence count.\n"
        \o "For detailed feedback, please contact your instructor."

(***************************************************************************)
(* grade_writing_with_ai                                                   *)
(***************************************************************************)
\* `not HF_TOKEN`: the token is None or the empty string
NoToken == HF_TOKEN = None \/ HF_TOKEN[1] = ""

\* the test of line 134 without the strip(): only None and "" count as missing
NoWritingSampleUnstripped(text) == text = None \/ text[1] = ""

\* `not writing_text or writing_text.strip() == ""`
NoWritingSample(text) == text = None \/ text[1] = "" \/ strip(text[1]) = ""

MSG_NO_WRITING == "Error: No writing sample provided."
MSG_WRITING_NO_TOKEN ==
    "Error grading writing: HF_TOKEN not configured. Set it in environment or exam_backend/.env"

URL_APPROACH_1 == "https://api-inference.huggingface.co/models/gpt2"
URL_APPROACH_2 == "https://huggingface.co/api/inference/gpt2"

\* Approach 1 without its `return text`: every response falls through to
\* approach 2
Approach1ResultFallsThrough(resp) == <<FALSE, JNull>>

\* Approach 1, after the response: <<TRUE, text>> when the code returns text,
\* <<FALSE, JNull>> when it goes on to approach 2.  An exception raised on the
\* way (resp.json() on an invalid body, .get on a non-dict, `in` on a number) is
\* swallowed by the except clause.
Approach1Result(resp) ==
    IF resp.kind = "http" /\ resp.status = 200
       /\ resp.body.t = "list" /\ Len(resp.body.items) > 0
       /\ resp.body.items[1].t = "dict"
    THEN LET text == DictGet(resp.body.items[1].fields, "generated_text", JStr(""))
         IN  IF text.t = "str" /\ text.s # "" /\ ~Contains(text.s, "Error")
             THEN <<TRUE, text>>
             ELSE <<FALSE, JNull>>
    ELSE <<FALSE, JNull>>

\* Approach 2, after the response: <<TRUE, value>> when the code returns
\* result["generated_text"], <<FALSE, JNull>> when it goes on to the local
\* fallback.  `"generated_text" in result` is a key test only for a dict; for a
\* list or a string that holds it, the subscript raises and is swallowed.
Approach2Result(resp) ==
    IF resp.kind = "http" /\ resp.status = 200
       /\ resp.body.t = "dict" /\ "generated_text" \in DOMAIN resp.body.fields
    THEN <<TRUE, resp.body.fields["generated_text"]>>
    ELSE <<FALSE, JNull>>

\* lines 134-164: the two early returns, else the first request is posted
WritingStart ==
    /\ w_pc = "start"
    /\ IF NoWritingSample(writing_text)
       THEN /\ writing_feedback' = Some(JStr(MSG_NO_WRITING))
            /\ w_pc' = "done"
            /\ UNCHANGED w_requests
       ELSE IF NoToken
       THEN /\ writing_feedback' = Some(JStr(MSG_WRITING_NO_TOKEN))
            /\ w_pc' = "done"
            /\ UNCHANGED w_requests
       ELSE /\ w_requests' = Append(w_requests, URL_APPROACH_1)
            /\ w_pc' = "approach1"
            /\ UNCHANGED writing_feedback
    /\ UNCHANGED <<HF_TOKEN, suspended, submitVars, objVars, speakingVars, writing_text, w_responses>>

\* lines 164-184: the first request ends; on success return its text, else post
\* the second request
WritingApproach1(resp) ==
    /\ w_pc = "approach1"
    /\ w_responses' = Append(w_responses, resp)
    /\ LET r == Approach1Result(resp)
       IN  IF r[1]
           THEN /\ writing_feedback' = Some(r[2])
                /\ w_pc' = "done"
                /\ UNCHANGED w_requests
           ELSE /\ w_requests' = Append(w_requests, URL_APPROACH_2)
                /\ w_pc' = "approach2"
                /\ UNCHANGED writing_feedback
    /\ UNCHANGED <<HF_TOKEN, suspended, submitVars, objVars, speakingVars, writing_text>>

\* the second request ends; on failure it is posted again instead of falling
\* back to the local feedback
WritingApproach2Retry(resp) ==
    /\ w_pc = "approach2"
    /\ w_responses' = Append(w_responses, resp)
    /\ LET r == Approach2Result(resp)
       IN  IF r[1]
           THEN /\ writing_feedback' = Some(r[2])
                /\ w_pc' = "done"
                /\ UNCHANGED w_requests
           ELSE /\ w_requests' = Append(w_requests, URL_APPROACH_2)
                /\ UNCHANGED <<writing_feedback, w_pc>>
    /\ UNCHANGED <<HF_TOKEN, suspended, submitVars, objVars, speakingVars, writing_text>>

\* lines 184-193: the second request ends; on success return its value, else
\* return the local feedback
WritingApproach2(resp) ==
    /\ w_pc = "approach2"
    /\ w_responses' = Append(w_responses, resp)
    /\ LET r == Approach2Result(resp)
       IN  writing_feedback' =
               IF r[1] THEN Some(r[2])
               ELSE Some(JStr(provide_local_writing_feedback(writing_text[1])))
    /\ w_pc' = "done"
    /\ UNCHANGED <<HF_TOKEN, suspended, submitVars, objVars, speakingVars, writing_text, w_requests>>

(***************************************************************************)
(* The environment of grade_writing_with_ai: the credential, the writing   *)
(* sample and what the provider answers.                                   *)
(***************************************************************************)
Tokens == {None, Some(""), Some("hf_secret")}

RECURSIVE Repeat(_, _)
\* s repeated n times
Repeat(s, n) ==
    IF n = 0 THEN ""
    ELSE IF n = 1 THEN s
    ELSE Repeat(s, n \div 2) \o Repeat(s, n - n \div 2)

\* the word counts of the generated samples: around every multiple of ten
WordCounts == {w \in 1..MaxWords : w <= 2 \/ w % 10 = 0 \/ w % 10 = 9}

WritingTexts ==
    {None, Some(""), Some(" \n\t ")}
    \cup {Some(Repeat("ab ", w)) : w \in WordCounts}
    \cup {Some(Repeat("Ab. ", n)) : n \in 1..MaxSentences}
    \cup {Some("I like walking. It is healthy.\nIt is cheap"),
          Some(". . ."), Some("One.Two..Three"), Some("  no full stop  ")}

GeneratedTexts == {"Grammar: 7. Vocabulary: 6.", "Error: model overloaded", ""}

TextResponses ==
    {Raised,
     Http(404, JInvalid), Http(503, JDict([error |-> JStr("loading")])),
     Http(500, JInvalid),
     Http(200, JInvalid), Http(200, JNull), Http(200, JNum(7)),
     Http(200, JStr("generated_text")),
     Http(200, JList(<<>>)), Http(200, JList(<<JStr("generated_text")>>)),
     Http(200, JList(<<JDict(<<>>)>>)),
     Http(200, JList(<<JDict([generated_text |-> JNull])>>)),
     Http(200, JList(<<JDict([generated_text |-> JNum(7)])>>)),
     Http(200, JDict(<<>>)), Http(200, JDict([error |-> JStr("bad request")])),
     Http(200, JDict([generated_text |-> JNull]))}
    \cup {Http(200, JList(<<JDict([generated_text |-> JStr(g)])>>)) : g \in GeneratedTexts}
    \cup {Http(200, JDict([generated_text |-> JStr(g)])) : g \in GeneratedTexts}

InitWriting ==
    /\ HF_TOKEN \in Tokens
    /\ writing_text \in WritingTexts
    /\ w_pc = "start"
    /\ writing_feedback = None
    /\ w_requests = <<>>
    /\ w_responses = <<>>
    /\ IdleObjective
    /\ IdleSpeaking
    /\ IdleSubmit

NextWriting ==
    \/ WritingStart
    \/ \E resp \in TextResponses : WritingApproach1(resp)
    \/ \E resp \in TextResponses : WritingApproach2(resp)

SpecWriting == InitWriting /\ [][NextWriting]_vars

(***************************************************************************)
(* str() and repr() of a value decoded from JSON.  A string is quoted with *)
(* single quotes (it holds no quote, backslash or control character in     *)
(* this model); a dict is written in the order its keys are chosen, which  *)
(* is the only order for the dicts of this model (at most one key).        *)
(***************************************************************************)
RECURSIVE py_repr(_)
RECURSIVE py_repr_items(_)
RECURSIVE py_repr_fields(_, _)

py_repr_items(items) ==
    IF Len(items) = 0 THEN ""
    ELSE IF Len(items) = 1 THEN py_repr(items[1])
    ELSE py_repr(items[1]) \o ", " \o py_repr_items(Tail(items))

py_repr_fields(fields, keys) ==
    IF keys = {} THEN ""
    ELSE LET k == CHOOSE k \in keys : TRUE
             one == "'" \o k \o "': " \o py_repr(fields[k])
         IN  IF keys = {k} THEN one
             ELSE one \o ", " \o py_repr_fields(fields, keys \ {k})

py_repr(j) ==
    CASE j.t = "str" -> "'" \o j.s \o "'"
      [] j.t = "num" -> str_int(j.n)
      [] j.t = "null" -> "None"
      [] j.t = "list" -> "[" \o py_repr_items(j.items) \o "]"
      [] j.t = "dict" -> "{" \o py_repr_fields(j.fields, DOMAIN j.fields) \o "}"

\* str(x), also what f"{x}" inserts
py_str(j) == IF j.t = "str" THEN j.s ELSE py_repr(j)

\* `a or b` for two values
PyOr(a, b) == IF Truthy(a) THEN a ELSE b

(***************************************************************************)
(* call_hf_text_model                                                      *)
(***************************************************************************)
hf_model == "gpt2"

URL_HF_ROUTER == "https://router.huggingface.co/hf-inference/models/" \o hf_model

MSG_HF_NO_TOKEN ==
    "Error: HF_TOKEN not configured. Set HF_TOKEN in environment or exam_backend/.env"

\* line 108
hf_loading_message ==
    "Model '" \o hf_model \o "' is currently loading. Please try again in a moment."

\* lines 95-110: the answer to a status other than 200
hf_error_message(resp) ==
    LET err == IF resp.body.t = "invalid" THEN resp.body.raw ELSE py_str(resp.body)
    IN  IF resp.status = 404
        THEN "Error: Model '" \o hf_model
             \o "' not found or not accessible with current HF token. "
             \o "Verify HF_TOKEN permissions. Status: " \o str_int(resp.status)
        ELSE IF resp.status = 503
        THEN hf_loading_message
        ELSE "Error from Hugging Face model (" \o hf_model \o "): "
             \o str_int(resp.status) \o " - " \o err

\* lines 112-127: the value returned for a 200 response with JSON body j
hf_generated(j) ==
    IF j.t = "list" /\ Len(j.items) > 0
    THEN LET first == j.items[1]
         IN  IF first.t = "dict"
             THEN PyOr(DictGet(first.fields, "generated_text", JNull),
                       PyOr(DictGet(first.fields, "text", JNull), JStr(py_str(first))))
             ELSE JStr(py_str(first))
    ELSE IF j.t = "dict" /\ "generated_text" \in DOMAIN j.fields
    THEN j.fields["generated_text"]
    ELSE IF j.t = "dict" /\ "text" \in DOMAIN j.fields
    THEN j.fields["text"]
    ELSE JStr(py_str(j))

\* lines 92-129: what call_hf_text_model returns once its request has ended in
\* resp (a value: the declared return type str is not enforced)
call_hf_text_model_result(resp) ==
    IF resp.kind = "exception"
    THEN JStr("Error calling Hugging Face model: " \o resp.error)
    ELSE IF resp.status # 200
    THEN JStr(hf_error_message(resp))
    ELSE IF resp.body.t = "invalid"
    THEN JStr("Error calling Hugging Face model: " \o MSG_JSON_DECODE)
    ELSE hf_generated(resp.body)

(***************************************************************************)
(* provide_local_speaking_feedback and grade_speaking_with_ai              *)
(***************************************************************************)
\* error is an optional string
provide_local_speaking_feedback(url, error) ==
    "AUTOMATED SPEAKING ASSESSMENT (Audio Analysis Unavailable)\n"
    \o "=========================================================\n"
    \o "Audio Link: " \o url \o "\n\n"
    \o "Assessment Status: Audio transcription service unavailable.\n\n"
    \o "For detailed feedback on your speaking:\n"
    \o "- Fluency\n"
    \o "- Pronunciation\n"
    \o "- Lexical Resource\n"
    \o "- Grammatical Range & Accuracy\n\n"
    \o "Please contact your instructor for manual assessment.\n\n"
    \o (IF error # None /\ error[1] # "" THEN "Technical Note: " \o error[1] ELSE "")

MSG_SPEAKING_UNAVAILABLE ==
    "SPEAKING ASSESSMENT UNAVAILABLE\nNo audio link provided. Please upload your "
    \o "speaking sample to a service like Vocaroo and provide the link."

URL_WHISPER == "https://router.huggingface.co/hf-inference/models/openai/whisper-small"

\* the test of line 406 without the strip(): only None and "" count as missing
NoAudioLinkUnstripped(url) == url = None \/ url[1] = ""

\* `not audio_url or audio_url.strip() == ""`
NoAudioLink(url) == url = None \/ url[1] = "" \/ strip(url[1]) = ""

\* lines 429-431: the transcript a transcription response leaves (None when the
\* request raised, the status is not 200, the body is no JSON or no dict, or
\* the dict has no "text")
transcript_of(resp) ==
    IF resp.kind = "http" /\ resp.status = 200 /\ resp.body.t = "dict"
    THEN DictGet(resp.body.fields, "text", JNull)
    ELSE JNull

\* lines 449-456, once call_hf_text_model has returned result: the pair of the
\* document and the local fallback.  `"Error" not in result` is a substring
\* test on a string, a membership test on a list, a key test on a dict and a
\* TypeError on a number or None, which the outer except turns into the local
\* feedback with a technical note.
speaking_outcome(url, tr, result) ==
    CASE result.t = "str" ->
            IF ~Contains(result.s, "Error")
            THEN "TRANSCRIPTION:\n" \o py_str(tr) \o "\n\nFEEDBACK:\n" \o result.s
            ELSE provide_local_speaking_feedback(url, None)
      [] result.t = "list" ->
            IF ~\E k \in 1..Len(result.items) : result.items[k] = JStr("Error")
            THEN "TRANSCRIPTION:\n" \o py_str(tr) \o "\n\nFEEDBACK:\n" \o py_str(result)
            ELSE provide_local_speaking_feedback(url, None)
      [] result.t = "dict" ->
            IF "Error" \notin DOMAIN result.fields
            THEN "TRANSCRIPTION:\n" \o py_str(tr) \o "\n\nFEEDBACK:\n" \o py_str(result)
            ELSE provide_local_speaking_feedback(url, None)
      [] result.t = "num" ->
            provide_local_speaking_feedback(url, Some("argument of type 'int' is not iterable"))
      [] result.t = "null" ->
            provide_local_speaking_feedback(url, Some("argument of type 'NoneType' is not iterable"))

Get(url) == [method |-> "GET", url |-> url]
Post(url) == [method |-> "POST", url |-> url]

\* lines 406-413: no audio link, else the download is requested
SpeakingStart ==
    /\ s_pc = "start"
    /\ IF NoAudioLink(audio_url)
       THEN /\ speaking_feedback' = Some(MSG_SPEAKING_UNAVAILABLE)
            /\ s_pc' = "done"
            /\ UNCHANGED s_calls
       ELSE /\ s_calls' = Append(s_calls, Get(audio_url[1]))
            /\ s_pc' = "fetch"
            /\ UNCHANGED speaking_feedback
    /\ UNCHANGED <<HF_TOKEN, suspended, submitVars, objVars, writingVars, audio_url, transcript, s_responses>>

\* lines 413-428 (and 437, 453 without a token): the download ends
SpeakingFetch(resp) ==
    /\ s_pc = "fetch"
    /\ s_responses' = Append(s_responses, resp)
    /\ IF resp.kind = "exception"
       THEN /\ speaking_feedback' =
                  Some("Error accessing audio URL: " \o resp.error
                       \o "\n\nPlease ensure the audio link is correct and publicly accessible.")
            /\ s_pc' = "done"
            /\ UNCHANGED s_calls
       ELSE IF resp.status # 200
       THEN /\ speaking_feedback' =
                  Some("Error downloading audio from " \o audio_url[1] \o ": HTTP "
                       \o str_int(resp.status)
                       \o "\n\nPlease verify the audio link is correct and publicly accessible.")
            /\ s_pc' = "done"
            /\ UNCHANGED s_calls
       ELSE IF NoToken
       THEN /\ speaking_feedback' = Some(provide_local_speaking_feedback(audio_url[1], None))
            /\ s_pc' = "done"
            /\ UNCHANGED s_calls
       ELSE /\ s_calls' = Append(s_calls, Post(URL_WHISPER))
            /\ s_pc' = "transcribe"
            /\ UNCHANGED speaking_feedback
    /\ UNCHANGED <<HF_TOKEN, suspended, submitVars, objVars, writingVars, audio_url, transcript>>

\* lines 428-448 (and 453): the transcription request ends; with a transcript
\* the generative-text request is posted (call_hf_text_model, lines 80-94)
SpeakingTranscribe(resp) ==
    /\ s_pc = "transcribe"
    /\ s_responses' = Append(s_responses, resp)
    /\ transcript' = transcript_of(resp)
    /\ IF ~Truthy(transcript_of(resp))
       THEN /\ speaking_feedback' = Some(provide_local_speaking_feedback(audio_url[1], None))
            /\ s_pc' = "done"
            /\ UNCHANGED s_calls
       ELSE IF NoToken
       THEN /\ speaking_feedback' =
                  Some(speaking_outcome(audio_url[1], transcript_of(resp), JStr(MSG_HF_NO_TOKEN)))
            /\ s_pc' = "done"
            /\ UNCHANGED s_calls
       ELSE /\ s_calls' = Append(s_calls, Post(URL_HF_ROUTER))
            /\ s_pc' = "generate"
            /\ UNCHANGED speaking_feedback
    /\ UNCHANGED <<HF_TOKEN, suspended, submitVars, objVars, writingVars, audio_url>>

\* lines 94-129 and 448-456: the generative-text request ends
SpeakingGenerate(resp) ==
    /\ s_pc = "generate"
    /\ s_responses' = Append(s_responses, resp)
    /\ speaking_feedback' =
          Some(speaking_outcome(audio_url[1], transcript, call_hf_text_model_result(resp)))
    /\ s_pc' = "done"
    /\ UNCHANGED <<HF_TOKEN, suspended, submitVars, objVars, writingVars, audio_url, transcript, s_calls>>

(***************************************************************************)
(* The environment of grade_speaking_with_ai.                              *)
(***************************************************************************)
AudioUrls ==
    {None, Some(""), Some(" \t "), Some("https://voca.ro/1abc"),
     Some(" https://voca.ro/1abc\n"), Some("not a link")}

FetchResponses ==
    {Raised, Http(404, JInvalid), Http(403, JInvalid), Http(500, JInvalid),
     Http(200, AudioBytes)}

TranscribeResponses ==
    {Raised, Http(404, JInvalid), Http(503, JDict([error |-> JStr("loading")])),
     Http(200, JInvalid), Http(200, JNull), Http(200, JStr("text")),
     Http(200, JList(<<JDict([text |-> JStr("Hello")])>>)),
     Http(200, JDict(<<>>)), Http(200, JDict([error |-> JStr("bad audio")])),
     Http(200, JDict([text |-> JNull])), Http(200, JDict([text |-> JStr("")])),
     Http(200, JDict([text |-> JNum(7)])),
     Http(200, JDict([text |-> JStr("Hello my name is Anna")])),
     Http(200, JDict([text |-> JStr(" I made an Error there")]))}

GenerateResponses ==
    TextResponses
    \cup {Http(200, JList(<<JDict([text |-> JStr("Fluency: 6")])>>)),
          Http(200, JDict([text |-> JStr("Fluency: 6")])),
          Http(200, JList(<<JStr("Fluency: 6")>>)),
          Http(429, JDict([error |-> JStr("rate limit")]))}

InitSpeaking ==
    /\ HF_TOKEN \in Tokens
    /\ audio_url \in AudioUrls
    /\ s_pc = "start"
    /\ speaking_feedback = None
    /\ transcript = JNull
    /\ s_calls = <<>>
    /\ s_responses = <<>>
    /\ IdleObjective
    /\ IdleWriting
    /\ IdleSubmit

NextSpeaking ==
    \/ SpeakingStart
    \/ \E resp \in FetchResponses : SpeakingFetch(resp)
    \/ \E resp \in TranscribeResponses : SpeakingTranscribe(resp)
    \/ \E resp \in GenerateResponses : SpeakingGenerate(resp)

SpecSpeaking == InitSpeaking /\ [][NextSpeaking]_vars

(***************************************************************************)
(* send_email_report and submit_exam: one submission.  The handler awaits  *)
(* the writing evaluation, then the speaking evaluation, and then grades   *)
(* the objective answers, compiles the results, reports and responds.      *)
(***************************************************************************)
TARGET_EMAIL == "info@academy-uk.net"

\* lines 296-400: the report is rendered and printed to the console (no mail is
\* sent, the SMTP code is commented out); every path ends in `return True`
send_email_report(target_email, name, email, res) == TRUE

MSG_REPORT_SENT ==
    "Exam submission received, graded by AI, and detailed report sent to "
    \o TARGET_EMAIL \o "."

MSG_REPORT_FAILED ==
    "Exam submission received and graded, but there was an error sending the "
    \o "email report."

\* lines 521-524
submit_message(sent) == IF sent THEN MSG_REPORT_SENT ELSE MSG_REPORT_FAILED

\* the results dict with the speaking link stored as the speaking feedback
compile_results_link_as_feedback(name, email, wf, link, sf, obj) ==
    [student_name |-> name,
     student_email |-> email,
     writing_feedback |-> wf,
     speaking_link |-> link,
     speaking_feedback |-> link,
     objective_results |-> obj]

\* lines 509-516: the results dict.  The two feedback entries hold what the
\* evaluator returned, as an optional value (None: nothing returned).
compile_results(name, email, wf, link, sf, obj) ==
    [student_name |-> name,
     student_email |-> email,
     writing_feedback |-> wf,
     speaking_link |-> link,
     speaking_feedback |-> sf,
     objective_results |-> obj]

\* line 530
JSONResponse(content) == [status_code |-> 200, content |-> content]

\* the handler goes on without waiting for the coroutine it started
NotAwaited(pc) == TRUE

\* `x = await f(...)`: the handler goes on when the awaited coroutine has
\* returned
Awaited(pc) == pc = "done"

\* lines 500-501: grade_writing_with_ai has returned; grade_speaking_with_ai is
\* called with the speaking link
SubmitAwaitWriting ==
    /\ submit_pc = "await_writing"
    /\ Awaited(w_pc)
    /\ s_pc' = "start"
    /\ submit_pc' = "await_speaking"
    /\ UNCHANGED <<HF_TOKEN, suspended, objVars, writingVars, audio_url, speaking_feedback,
                   transcript, s_calls, s_responses, student_name, student_email,
                   results, email_sent, response>>

\* lines 501-530: grade_speaking_with_ai has returned; the objective answers are
\* graded, the results compiled, the report sent and the response returned
SubmitCompile ==
    /\ submit_pc = "await_speaking"
    /\ Awaited(s_pc)
    /\ \E obj \in {grade_objective_questions(listening_answers, reading_answers)} :
       LET res == compile_results(student_name, student_email, writing_feedback,
                                  audio_url, speaking_feedback, obj)
           sent == send_email_report(TARGET_EMAIL, student_name, student_email, res)
       IN  /\ objective_results' = Some(obj)
           /\ o_pc' = "returned"
           /\ results' = Some(res)
           /\ email_sent' = Some(sent)
           /\ response' =
                  Some(JSONResponse([message |-> submit_message(sent), results |-> res]))
    /\ submit_pc' = "returned"
    /\ UNCHANGED <<HF_TOKEN, suspended, listening_answers, reading_answers, writingVars,
                   speakingVars, student_name, student_email>>

(***************************************************************************)
(* The environment of submit_exam: the form fields of one submission and   *)
(* what the providers answer.                                              *)
(***************************************************************************)
\* [q1..q5] and [r1..r10]: the key, the key in other case between whitespace,
\* nothing, and the key with q2 wrong and r7 missing
SubmitAnswers ==
    {<<PlainList("q", NumListening, kind), PlainList("r", NumReading, kind)>>
        : kind \in BaseKinds}
    \cup {<<AnswerList("q", NumListening, "key", 2, Some("555-4321")),
            AnswerList("r", NumReading, "key", 7, None)>>}

SubmitStudents == {<<None, None>>, <<Some("Anna"), Some("anna@example.org")>>}

SubmitWritingTexts ==
    {None, Some(" \n\t "), Some("I like walking. It is healthy.\nIt is cheap")}

SubmitAudioUrls == {None, Some(" \t "), Some("https://voca.ro/1abc")}

SubmitTextResponses ==
    {Raised, Http(503, JDict([error |-> JStr("loading")])),
     Http(200, JList(<<JDict([generated_text |-> JStr("Grammar: 7. Vocabulary: 6.")])>>)),
     Http(200, JDict([generated_text |-> JStr("Grammar: 7. Vocabulary: 6.")])),
     Http(200, JDict([generated_text |-> JNull]))}

SubmitFetchResponses == {Raised, Http(404, JInvalid), Http(200, AudioBytes)}

SubmitTranscribeResponses ==
    {Raised, Http(200, JDict([text |-> JNum(7)])),
     Http(200, JDict([text |-> JStr("Hello my name is Anna")]))}

SubmitGenerateResponses ==
    SubmitTextResponses
    \cup {Http(200, JList(<<JDict([generated_text |-> JStr("Error: model overloaded")])>>)),
          Http(200, JNum(7))}

InitSubmit ==
    /\ HF_TOKEN \in Tokens
    /\ \E st \in SubmitStudents :
          /\ student_name = st[1]
          /\ student_email = st[2]
    /\ \E in \in SubmitAnswers :
          /\ listening_answers = in[1]
          /\ reading_answers = in[2]
    /\ objective_results = None
    /\ o_pc = "idle"
    /\ writing_text \in SubmitWritingTexts
    /\ w_pc = "start"
    /\ writing_feedback = None
    /\ w_requests = <<>>
    /\ w_responses = <<>>
    /\ audio_url \in SubmitAudioUrls
    /\ s_pc = "idle"
    /\ speaking_feedback = None
    /\ transcript = JNull
    /\ s_calls = <<>>
    /\ s_responses = <<>>
    /\ submit_pc = "await_writing"
    /\ results = None
    /\ email_sent = None
    /\ response = None
    /\ suspended = None

NextSubmit ==
    \/ WritingStart
    \/ \E resp \in SubmitTextResponses : WritingApproach1(resp)
    \/ \E resp \in SubmitTextResponses : WritingApproach2(resp)
    \/ SubmitAwaitWriting
    \/ SpeakingStart
    \/ \E resp \in SubmitFetchResponses : SpeakingFetch(resp)
    \/ \E resp \in SubmitTranscribeResponses : SpeakingTranscribe(resp)
    \/ \E resp \in SubmitGenerateResponses : SpeakingGenerate(resp)
    \/ SubmitCompile

SpecSubmit == InitSubmit /\ [][NextSubmit]_vars

\* The event loop resumes a handler whose awaited call has returned, and every
\* network call ends: the clients are created with timeout=60.0 (lines 93, 163,
\* 183), timeout=30.0 (line 411) and timeout=120.0 (lines 427-428), and a
\* timeout is the raised response.  So a step that is possible is eventually
\* taken.
SpecSubmitFair == SpecSubmit /\ WF_vars(NextSubmit)

(***************************************************************************)
(* Two submissions on one event loop.  The handler submit_exam is a        *)
(* coroutine: while one submission waits at an await, the event loop may   *)
(* run the handler of another one.  The variables above are the locals of  *)
(* the handler that runs; `suspended` holds the locals of the other one.   *)
(* HF_TOKEN, hf_model and the answer key are module-level names or         *)
(* constants of the code and belong to no handler.                         *)
(***************************************************************************)
\* the locals of the handler that runs, as one record
Frame ==
    [listening_answers |-> listening_answers,
     reading_answers |-> reading_answers,
     objective_results |-> objective_results,
     o_pc |-> o_pc,
     writing_text |-> writing_text,
     w_pc |-> w_pc,
     writing_feedback |-> writing_feedback,
     w_requests |-> w_requests,
     w_responses |-> w_responses,
     audio_url |-> audio_url,
     s_pc |-> s_pc,
     speaking_feedback |-> speaking_feedback,
     transcript |-> transcript,
     s_calls |-> s_calls,
     s_responses |-> s_responses,
     student_name |-> student_name,
     student_email |-> student_email,
     submit_pc |-> submit_pc,
     results |-> results,
     email_sent |-> email_sent,
     response |-> response]

\* the handler that runs has the locals f
Running(f) ==
    /\ listening_answers = f.listening_answers
    /\ reading_answers = f.reading_answers
    /\ objective_results = f.objective_results
    /\ o_pc = f.o_pc
    /\ writing_text = f.writing_text
    /\ w_pc = f.w_pc
    /\ writing_feedback = f.writing_feedback
    /\ w_requests = f.w_requests
    /\ w_responses = f.w_responses
    /\ audio_url = f.audio_url
    /\ s_pc = f.s_pc
    /\ speaking_feedback = f.speaking_feedback
    /\ transcript = f.transcript
    /\ s_calls = f.s_calls
    /\ s_responses = f.s_responses
    /\ student_name = f.student_name
    /\ student_email = f.student_email
    /\ submit_pc = f.submit_pc
    /\ results = f.results
    /\ email_sent = f.email_sent
    /\ response = f.response

\* the handler with the locals f is resumed
Resume(f) ==
    /\ listening_answers' = f.listening_answers
    /\ reading_answers' = f.reading_answers
    /\ objective_results' = f.objective_results
    /\ o_pc' = f.o_pc
    /\ writing_text' = f.writing_text
    /\ w_pc' = f.w_pc
    /\ writing_feedback' = f.writing_feedback
    /\ w_requests' = f.w_requests
    /\ w_responses' = f.w_responses
    /\ audio_url' = f.audio_url
    /\ s_pc' = f.s_pc
    /\ speaking_feedback' = f.speaking_feedback
    /\ transcript' = f.transcript
    /\ s_calls' = f.s_calls
    /\ s_responses' = f.s_responses
    /\ student_name' = f.student_name
    /\ student_email' = f.student_email
    /\ submit_pc' = f.submit_pc
    /\ results' = f.results
    /\ email_sent' = f.email_sent
    /\ response' = f.response

\* the locals of a handler that has just been called with the form fields of
\* one submission (lines 477-499)
StartFrame(name, email, listening, reading, text, url) ==
    [listening_answers |-> listening,
     reading_answers |-> reading,
     objective_results |-> None,
     o_pc |-> "idle",
     writing_text |-> text,
     w_pc |-> "start",
     writing_feedback |-> None,
     w_requests |-> <<>>,
     w_responses |-> <<>>,
     audio_url |-> url,
     s_pc |-> "idle",
     speaking_feedback |-> None,
     transcript |-> JNull,
     s_calls |-> <<>>,
     s_responses |-> <<>>,
     student_name |-> name,
     student_email |-> email,
     submit_pc |-> "await_writing",
     results |-> None,
     email_sent |-> None,
     response |-> None]

\* the event loop changes handler, the variable transcript of
\* grade_speaking_with_ai being kept in one place for both handlers
SwitchSharingTranscript ==
    /\ suspended # None
    /\ suspended' = Some(Frame)
    /\ Resume([suspended[1] EXCEPT !.transcript = transcript])
    /\ UNCHANGED HF_TOKEN

\* the event loop changes handler: the one that runs is suspended (at one of
\* the awaits of lines 164, 184, 412, 428, 94, or after its return) and the
\* other one is resumed with its own locals
Switch ==
    /\ suspended # None
    /\ suspended' = Some(Frame)
    /\ Resume(suspended[1])
    /\ UNCHANGED HF_TOKEN

(***************************************************************************)
(* The environment of two submissions: their form fields and what the      *)
(* providers answer to each request.                                       *)
(***************************************************************************)
FirstSubmissions ==
    {StartFrame(Some("Anna"), Some("anna@example.org"),
                PlainList("q", NumListening, "key"), PlainList("r", NumReading, "key"),
                Some("I like walking. It is healthy.\nIt is cheap"),
                Some("https://voca.ro/1abc"))}

SecondSubmissions ==
    {StartFrame(Some("Ben"), Some("ben@example.org"),
                AnswerList("q", NumListening, "key", 2, Some("555-4321")),
                AnswerList("r", NumReading, "key", 7, None),
                text, Some("https://voca.ro/2xyz"))
        : text \in {None, Some("We was happy. Very happy")}}

PairTextResponses ==
    {Raised,
     Http(200, JList(<<JDict([generated_text |-> JStr("Grammar: 7. Vocabulary: 6.")])>>)),
     Http(200, JDict([generated_text |-> JStr("Grammar: 5. Vocabulary: 5.")]))}

PairFetchResponses == {Http(404, JInvalid), Http(200, AudioBytes)}

PairTranscribeResponses ==
    {Raised,
     Http(200, JDict([text |-> JStr("Hello my name is Anna")])),
     Http(200, JDict([text |-> JStr("Hello I am Ben")]))}

PairGenerateResponses ==
    {Http(503, JDict([error |-> JStr("loading")])),
     Http(200, JList(<<JDict([generated_text |-> JStr("Fluency: 6")])>>))}

InitConcurrent ==
    /\ HF_TOKEN \in Tokens
    /\ \E f \in FirstSubmissions : Running(f)
    /\ \E f \in SecondSubmissions : suspended = Some(f)

NextConcurrent ==
    \/ WritingStart
    \/ \E resp \in PairTextResponses : WritingApproach1(resp)
    \/ \E resp \in PairTextResponses : WritingApproach2(resp)
    \/ SubmitAwaitWriting
    \/ SpeakingStart
    \/ \E resp \in PairFetchResponses : SpeakingFetch(resp)
    \/ \E resp \in PairTranscribeResponses : SpeakingTranscribe(resp)
    \/ \E resp \in PairGenerateResponses : SpeakingGenerate(resp)
    \/ SubmitCompile
    \/ Switch

SpecConcurrent == InitConcurrent /\ [][NextConcurrent]_vars

(***************************************************************************)
(* Claims about grade_objective_questions (checked under SpecObjective).   *)
(***************************************************************************)
ObjectiveReturned == o_pc = "returned"

Result == objective_results[1]

\* the entry of the p-th answer of a section in the returned dict
ListeningEntry(p) == Result.listening_results[q_key("q", p)]
ReadingEntry(p) == Result.reading_results[q_key("r", p)]

\* the submitted answer trimmed and lower-cased; an absent answer is empty
Normalized(ans) == IF ans = None THEN "" ELSE lower(strip(ans[1]))

HasKey(prefix, p) == q_key(prefix, p) \in DOMAIN correct_answers

IsBlankAnswer(ans) == ans = None \/ strip(ans[1]) = ""

\* C3: for every position that has an AnswerKey entry, in the listening and in
\* the reading sequence, the returned entry is marked correct if and only if the
\* submitted answer, trimmed and lower-cased, equals the lower-cased key entry.
C3_CorrectIffNormalizedEqualsKey ==
    ObjectiveReturned =>
        /\ \A p \in 1..Len(listening_answers) :
              HasKey("q", p) =>
                (ListeningEntry(p).correct
                    <=> Normalized(listening_answers[p]) = lower(correct_answers[q_key("q", p)]))
        /\ \A p \in 1..Len(reading_answers) :
              HasKey("r", p) =>
                (ReadingEntry(p).correct
                    <=> Normalized(reading_answers[p]) = lower(correct_answers[q_key("r", p)]))

\* C3 witness: a call has returned in which an answer that differs from the key
\* in case and surrounding whitespace is marked correct, and a wrong one is not.
C3_Witness ==
    /\ ObjectiveReturned
    /\ Len(listening_answers) = NumListening
    /\ listening_answers[1] = Some(" SMITH\t\n")
    /\ ListeningEntry(1).correct
    /\ listening_answers[2] = Some("555-1234x")
    /\ ~ListeningEntry(2).correct

CorrectCount ==
    Cardinality({p \in 1..Len(listening_answers) : ListeningEntry(p).correct})
    + Cardinality({p \in 1..Len(reading_answers) : ReadingEntry(p).correct})

NonBlankCount ==
    Cardinality({p \in 1..Len(listening_answers) : ~IsBlankAnswer(listening_answers[p])})
    + Cardinality({p \in 1..Len(reading_answers) : ~IsBlankAnswer(reading_answers[p])})

\* C4: whatever the lengths of the two sequences, an absent, empty or
\* whitespace-only answer is marked incorrect and adds nothing to the score (the
\* score is at most the number of non-blank answers).
C4_BlankAlwaysIncorrect ==
    ObjectiveReturned =>
        /\ \A p \in 1..Len(listening_answers) :
              IsBlankAnswer(listening_answers[p]) => ~ListeningEntry(p).correct
        /\ \A p \in 1..Len(reading_answers) :
              IsBlankAnswer(reading_answers[p]) => ~ReadingEntry(p).correct
        /\ Result.score <= NonBlankCount

\* C5: the returned score equals the number of entries whose correct flag is
\* true and never exceeds the returned total of 15.
C5_ScoreIsCountAndAtMostTotal ==
    ObjectiveReturned =>
        /\ Result.score = CorrectCount
        /\ Result.score <= Result.total
        /\ Result.total = 15

(***************************************************************************)
(* Claims about grade_writing_with_ai (checked under SpecWriting).         *)
(***************************************************************************)
WritingDone == w_pc = "done"

\* the text is absent, empty or made of whitespace only
IsBlankText(text) ==
    text = None \/ \A i \in 1..Len(text[1]) : IsSpace(Char(text[1], i))

CredentialAbsent == HF_TOKEN = None \/ HF_TOKEN = Some("")

\* both external attempts were made and both failed
AllAttemptsFailed ==
    /\ Len(w_responses) = 2
    /\ ~Approach1Result(w_responses[1])[1]
    /\ ~Approach2Result(w_responses[2])[1]

\* the returned value is a string that holds part
FeedbackHolds(part) ==
    /\ writing_feedback # None
    /\ writing_feedback[1].t = "str"
    /\ Contains(writing_feedback[1].s, part)

\* C1: with non-blank text and no credential configured, the call returns the
\* local heuristic document (counts, four scores, average, disclaimer), the one
\* it returns when every external attempt fails with a credential present.
C1_NoCredentialGivesLocalHeuristic ==
    (WritingDone /\ ~IsBlankText(writing_text) /\ CredentialAbsent) =>
        /\ writing_feedback = Some(JStr(provide_local_writing_feedback(writing_text[1])))
        /\ FeedbackHolds("Word Count: ")
        /\ FeedbackHolds("Average Score: ")

\* C8: with absent, empty or whitespace-only text no request is ever posted and
\* the call returns the missing-input message, with or without a credential.
C8_BlankTextNoProvider ==
    IsBlankText(writing_text) =>
        /\ w_requests = <<>>
        /\ w_responses = <<>>
        /\ WritingDone =>
              writing_feedback = Some(JStr("Error: No writing sample provided."))

\* C8 witness: a call with whitespace-only text and a credential configured has
\* returned.
C8_Witness ==
    /\ WritingDone
    /\ writing_text = Some(" \n\t ")
    /\ HF_TOKEN = Some("hf_secret")
    /\ FeedbackHolds("No writing sample provided")

Capped(x) == IF x > 9 THEN 9 ELSE x

\* C10: when the call ends on the local heuristic path, the document states
\* grammar = min(9, 4 + words div 50), vocabulary = min(9, 4 + words div 40),
\* coherence = min(9, 3 + sentences div 3), task achievement =
\* min(9, 5 + words div 30), and each of the four lies in 1..9.
C10_LocalScoresFormulaAndRange ==
    (WritingDone /\ AllAttemptsFailed) =>
        LET wc == word_count(writing_text[1])
            sc == sentence_count(writing_text[1])
            g == Capped(4 + wc \div 50)
            v == Capped(4 + wc \div 40)
            c == Capped(3 + sc \div 3)
            t == Capped(5 + wc \div 30)
        IN  /\ {g, v, c, t} \subseteq 1..9
            /\ FeedbackHolds("\n- Grammar: " \o str_int(g) \o "/9\n")
            /\ FeedbackHolds("\n- Vocabulary: " \o str_int(v) \o "/9\n")
            /\ FeedbackHolds("\n- Coherence: " \o str_int(c) \o "/9\n")
            /\ FeedbackHolds("\n- Task Achievement: " \o str_int(t) \o "/9\n")

\* C10 witness: a call on a 300-word sample has ended on the local path, where
\* 4 + 300 div 50 = 10 is capped to 9.
C10_Witness ==
    /\ WritingDone
    /\ AllAttemptsFailed
    /\ FeedbackHolds("Word Count: 300 words\n")
    /\ FeedbackHolds("\n- Grammar: 9/9\n")

(***************************************************************************)
(* Claims about grade_speaking_with_ai (checked under SpecSpeaking).       *)
(***************************************************************************)
SpeakingDone == s_pc = "done"

SpeakingHolds(part) ==
    speaking_feedback # None /\ Contains(speaking_feedback[1], part)

\* the LocalFeedback document: it names the audio link, says that the
\* transcription service is unavailable and asks for manual instructor review
IsLocalFeedback ==
    /\ SpeakingHolds("Audio Link: " \o audio_url[1] \o "\n")
    /\ SpeakingHolds("Audio transcription service unavailable.")
    /\ SpeakingHolds("Please contact your instructor for manual assessment.")

\* the Done document: the transcript followed by the generated feedback
IsDoneDocument ==
    /\ speaking_feedback # None
    /\ SubSeq(speaking_feedback[1], 1, Len("TRANSCRIPTION:\n")) = "TRANSCRIPTION:\n"
    /\ SpeakingHolds("\n\nFEEDBACK:\n")

Is2xx(resp) == resp.kind = "http" /\ resp.status \in 200..299

\* a generative-text attempt that failed: the request raised, the status is not
\* 2xx, or the body is no JSON
GenerativeAttemptFailed(resp) == ~Is2xx(resp) \/ resp.body.t = "invalid"

\* C2: when fetch and transcription succeeded and the generative-text attempt
\* fails (transport exception, HTTP 404, HTTP 503, another non-2xx status, a
\* body that is no JSON), the call ends in LocalFeedback, never in Done.
C2_GenerateFailureGivesLocalFeedback ==
    (SpeakingDone /\ Len(s_responses) = 3 /\ GenerativeAttemptFailed(s_responses[3])) =>
        (IsLocalFeedback /\ ~IsDoneDocument)

\* C6: when the audio fetch answers with a status other than 200, the call
\* returns a document that names the audio link, carries the failure reason (the
\* status) and asks for manual instructor review.
C6_FetchFailureGivesLocalFeedback ==
    (SpeakingDone /\ Len(s_responses) >= 1
        /\ s_responses[1].kind = "http" /\ s_responses[1].status # 200) =>
        /\ SpeakingHolds(audio_url[1])
        /\ SpeakingHolds(str_int(s_responses[1].status))
        /\ SpeakingHolds("Please contact your instructor for manual assessment.")

\* a transcription attempt that failed: the request raised, the status is not
\* 2xx, the body is no JSON or no object, or it holds no non-empty transcript
\* string
TranscriptionFailed(resp) ==
    \/ ~Is2xx(resp)
    \/ resp.body.t # "dict"
    \/ "text" \notin DOMAIN resp.body.fields
    \/ resp.body.fields["text"].t # "str"
    \/ resp.body.fields["text"].s = ""

\* C7: after a successful fetch, a failed transcription attempt leads to the
\* LocalFeedback document, and the generative-text provider is not called.
C7_TranscriptionFailureGivesLocalFeedback ==
    (Len(s_responses) >= 2 /\ TranscriptionFailed(s_responses[2])) =>
        /\ \A k \in 1..Len(s_calls) : s_calls[k].url # URL_HF_ROUTER
        /\ SpeakingDone => IsLocalFeedback

\* C9: with an absent, empty or whitespace-only audio reference no network call
\* is ever made (no fetch, no transcription, no generative-text request) and the
\* call returns the Unavailable feedback.
C9_BlankAudioNoNetwork ==
    IsBlankText(audio_url) =>
        /\ s_calls = <<>>
        /\ s_responses = <<>>
        /\ SpeakingDone =>
              /\ SpeakingHolds("SPEAKING ASSESSMENT UNAVAILABLE\nNo audio link provided.")
              /\ ~IsDoneDocument

\* C9 witness: a call with a whitespace-only audio reference and a credential
\* configured has returned.
C9_Witness ==
    /\ SpeakingDone
    /\ audio_url = Some(" \t ")
    /\ HF_TOKEN = Some("hf_secret")
    /\ SpeakingHolds("SPEAKING ASSESSMENT UNAVAILABLE")

\* the Unavailable document of a call without an audio reference
IsUnavailable == speaking_feedback = Some(MSG_SPEAKING_UNAVAILABLE)

\* C11: for every combination of external outcomes a finished speaking
\* evaluation holds a feedback value, and that value is one of the three
\* terminal outcomes Unavailable, Done and LocalFeedback.
C11_OnlyThreeTerminalOutcomes ==
    SpeakingDone =>
        /\ speaking_feedback # None
        /\ (IsUnavailable \/ IsDoneDocument \/ IsLocalFeedback)

(***************************************************************************)
(* Further claims about grade_objective_questions (SpecObjective).         *)
(***************************************************************************)
ExpectedListening == <<"Smith", "555-1234", "Toothache", "Tuesday", "10:00">>

ExpectedReading ==
    <<"B", "B", "B", "B", "B", "accessible", "weight", "injuries", "stress", "natural">>

\* the answer is the expected one, possibly in other case and with whitespace
\* around it
IsExpectedUpToCaseAndSpace(ans, e) ==
    ans \in {Some(e), Some(lower(e)), Some(upper(e)), Some(" " \o e \o " "),
             Some(" " \o upper(e) \o "\t\n"), Some("\n" \o lower(e))}

AllExpected ==
    /\ Len(listening_answers) = Len(ExpectedListening)
    /\ Len(reading_answers) = Len(ExpectedReading)
    /\ \A p \in 1..Len(ExpectedListening) :
          IsExpectedUpToCaseAndSpace(listening_answers[p], ExpectedListening[p])
    /\ \A p \in 1..Len(ExpectedReading) :
          IsExpectedUpToCaseAndSpace(reading_answers[p], ExpectedReading[p])

\* C16: the answers q1 = Smith, q2 = 555-1234, q3 = Toothache, q4 = Tuesday,
\* q5 = 10:00, r1..r5 = B, r6..r10 = accessible, weight, injuries, stress,
\* natural score 15 of 15 with every entry correct, also when they differ from
\* these only in case or surrounding whitespace.
C16_ExpectedAnswersScoreFifteen ==
    (ObjectiveReturned /\ AllExpected) =>
        /\ Result.score = 15
        /\ Result.total = 15
        /\ \A p \in 1..Len(ExpectedListening) : ListeningEntry(p).correct
        /\ \A p \in 1..Len(ExpectedReading) : ReadingEntry(p).correct

\* C16 witness: the call has returned for the expected answers written in upper
\* case between whitespace, except r6 which is given as "accessible".
C16_Witness ==
    /\ ObjectiveReturned
    /\ AllExpected
    /\ listening_answers[1] = Some(" SMITH\t\n")
    /\ reading_answers[10] = Some(" NATURAL\t\n")
    /\ reading_answers[6] = Some("accessible")
    /\ Result.score = 15

(***************************************************************************)
(* Further claims about grade_speaking_with_ai (SpecSpeaking).             *)
(***************************************************************************)
\* the text a successful generative-text response carries: HTTP 200 with a
\* non-empty string under "generated_text", in an object or in the first object
\* of a list; None for any other response
GeneratedTextOf(resp) ==
    IF resp.kind # "http" \/ resp.status # 200 THEN None
    ELSE LET j == resp.body
             o == IF j.t = "list" /\ Len(j.items) > 0 THEN j.items[1] ELSE j
         IN  IF o.t = "dict" /\ "generated_text" \in DOMAIN o.fields
                /\ o.fields["generated_text"].t = "str"
                /\ o.fields["generated_text"].s # ""
             THEN Some(o.fields["generated_text"].s)
             ELSE None

\* C18: in GenerateFeedback, whenever the generative-text provider succeeds
\* (HTTP 200 with generated text), the call ends in Done with the document that
\* concatenates the transcript and the generated feedback, whatever characters
\* or words the generated text contains.
C18_GeneratedTextGivesDone ==
    (SpeakingDone /\ Len(s_responses) = 3 /\ transcript.t = "str"
        /\ GeneratedTextOf(s_responses[3]) # None) =>
        speaking_feedback =
            Some("TRANSCRIPTION:\n" \o transcript.s \o "\n\nFEEDBACK:\n"
                 \o GeneratedTextOf(s_responses[3])[1])

FetchSucceeded(resp) == resp.kind = "http" /\ resp.status = 200

Requested(url) == \E k \in 1..Len(s_calls) : s_calls[k] = Post(url)

\* C20: the stages run in the order FetchAudio, TranscribeAudio,
\* GenerateFeedback: the transcription request is made only after a successful
\* fetch, the generative-text request only after the transcription yielded a
\* non-empty transcript, and Done is reached only after all three stages
\* succeeded in that order.
C20_StagesInOrder ==
    /\ Requested(URL_WHISPER) =>
          /\ Len(s_calls) >= 2 /\ s_calls[2] = Post(URL_WHISPER)
          /\ Len(s_responses) >= 1 /\ FetchSucceeded(s_responses[1])
    /\ Requested(URL_HF_ROUTER) =>
          /\ Len(s_calls) = 3 /\ s_calls[3] = Post(URL_HF_ROUTER)
          /\ Len(s_responses) >= 2 /\ FetchSucceeded(s_responses[1])
          /\ ~TranscriptionFailed(s_responses[2])
    /\ (SpeakingDone /\ IsDoneDocument) =>
          /\ Len(s_responses) = 3
          /\ FetchSucceeded(s_responses[1])
          /\ ~TranscriptionFailed(s_responses[2])
          /\ ~GenerativeAttemptFailed(s_responses[3])

(***************************************************************************)
(* Further claims about grade_writing_with_ai (SpecWriting).               *)
(***************************************************************************)
\* the first attempt succeeded: HTTP 200 with a list whose first object holds a
\* non-empty generated text that does not read as an error
Attempt1Succeeded(resp) ==
    /\ resp.kind = "http" /\ resp.status = 200
    /\ resp.body.t = "list" /\ Len(resp.body.items) > 0
    /\ resp.body.items[1].t = "dict"
    /\ "generated_text" \in DOMAIN resp.body.items[1].fields
    /\ resp.body.items[1].fields["generated_text"].t = "str"
    /\ resp.body.items[1].fields["generated_text"].s # ""
    /\ ~Contains(resp.body.items[1].fields["generated_text"].s, "Error")

\* the second attempt succeeded: HTTP 200 with an object that holds a generated
\* text
Attempt2Succeeded(resp) ==
    /\ resp.kind = "http" /\ resp.status = 200
    /\ resp.body.t = "dict"
    /\ "generated_text" \in DOMAIN resp.body.fields

IsLocalHeuristic ==
    /\ writing_text # None
    /\ writing_feedback = Some(JStr(provide_local_writing_feedback(writing_text[1])))

SubmitReturned == submit_pc = "returned"

\* the results dict of the returned response
Returned == response[1].content.results

\* C12: the response is produced only after the objective grading, the writing
\* evaluation and the speaking evaluation have each ended with a value; each
\* section of the returned results holds that value (none is missing or
\* pending), every evaluation ends by returning a value, and the handler
\* answers with status 200.
C12_ResultOnlyAfterDefiniteOutcomes ==
    /\ w_pc = "done" => writing_feedback # None
    /\ s_pc = "done" => speaking_feedback # None
    /\ SubmitReturned => response # None
    /\ response # None =>
          /\ SubmitReturned
          /\ w_pc = "done" /\ s_pc = "done" /\ o_pc = "returned"
          /\ response[1].status_code = 200
          /\ Returned.writing_feedback # None
          /\ Returned.writing_feedback = writing_feedback
          /\ Returned.speaking_feedback # None
          /\ Returned.speaking_feedback = speaking_feedback
          /\ Some(Returned.objective_results) = objective_results
          /\ results = Some(Returned)

\* C12 witness: a submission has been answered after both writing attempts
\* failed and the audio download raised.
C12_Witness ==
    /\ SubmitReturned
    /\ response # None
    /\ Len(w_responses) = 2 /\ w_responses[1] = Raised /\ w_responses[2] = Raised
    /\ Len(s_responses) = 1 /\ s_responses[1] = Raised

\* C13: the writing and the speaking evaluation run as independent tasks:
\* while the writing evaluation waits for a provider, a speaking evaluation
\* that has not begun can take its first step (which issues the audio
\* download), so that both can be in flight at the same time.
C13_SpeakingCanStartWhileWritingInFlight ==
    (submit_pc # "idle" /\ w_pc \in {"approach1", "approach2"}
        /\ s_pc \in {"idle", "start"}) =>
        ENABLED SpeakingStart

\* the objective score counted from the expected answers
ExpectedScore ==
    Cardinality({p \in 1..Len(listening_answers) :
                    Normalized(listening_answers[p]) = lower(ExpectedListening[p])})
    + Cardinality({p \in 1..Len(reading_answers) :
                    Normalized(reading_answers[p]) = lower(ExpectedReading[p])})

\* C15: in a submission without writing text and without audio link the
\* returned results hold the missing-input writing message and the Unavailable
\* speaking message and no provider is called; and in every submission the
\* objective results are those of the objective grader on the answers alone,
\* whatever the writing text, the audio link, the credential and the providers'
\* answers are.
C15_BlankSubmissionAndIndependentScore ==
    SubmitReturned =>
        /\ (IsBlankText(writing_text) /\ IsBlankText(audio_url)) =>
              /\ Returned.writing_feedback = Some(JStr("Error: No writing sample provided."))
              /\ Returned.speaking_feedback # None
              /\ LET head == "SPEAKING ASSESSMENT UNAVAILABLE\nNo audio link provided."
                 IN  SubSeq(Returned.speaking_feedback[1], 1, Len(head)) = head
              /\ w_requests = <<>>
              /\ s_calls = <<>>
        /\ Returned.objective_results
              = grade_objective_questions(listening_answers, reading_answers)
        /\ Returned.objective_results.score = ExpectedScore
        /\ Returned.objective_results.total = 15

\* C15 witness: a submission without writing text and audio link, with 13 of
\* the 15 answers right and a credential configured, has been answered.
C15_Witness ==
    /\ SubmitReturned
    /\ writing_text = None
    /\ audio_url = None
    /\ HF_TOKEN = Some("hf_secret")
    /\ listening_answers[2] = Some("555-4321")
    /\ Returned.objective_results.score = 13

\* the external calls one submission has made: the generative-text requests of
\* the writing evaluator, then the audio download, the transcription and the
\* generative-text request of the speaking evaluator
ExternalCalls == Len(w_requests) + Len(s_calls)

\* C21: every submission eventually reaches the response step and returns its
\* results, given that every network call answers or times out; on the way it
\* makes a bounded number of external calls (at most two writing requests and
\* three speaking requests, each request made once: no retry).
C21_EventuallyReturnsWithBoundedCalls ==
    /\ [](/\ ExternalCalls <= 5
          /\ Len(w_requests) <= 2
          /\ Len(s_calls) <= 3
          /\ \A i, j \in 1..Len(w_requests) : w_requests[i] = w_requests[j] => i = j
          /\ \A i, j \in 1..Len(s_calls) : s_calls[i] = s_calls[j] => i = j)
    /\ <>(SubmitReturned /\ response # None)

\* C21 witness: a submission has been answered after five external calls, the
\* last writing and the last speaking request having timed out.
C21_Witness ==
    /\ SubmitReturned
    /\ response # None
    /\ ExternalCalls = 5
    /\ w_responses[2] = Raised
    /\ s_responses[3] = Raised

(***************************************************************************)
(* Claims about two submissions handled at once (checked under             *)
(* SpecConcurrent).                                                        *)
(***************************************************************************)
\* lines 131-193 run without interruption: the value grade_writing_with_ai
\* returns for text when its requests end in resps, in order
writing_alone(text, resps) ==
    IF NoWritingSample(text) THEN JStr(MSG_NO_WRITING)
    ELSE IF NoToken THEN JStr(MSG_WRITING_NO_TOKEN)
    ELSE IF Approach1Result(resps[1])[1] THEN Approach1Result(resps[1])[2]
    ELSE IF Approach2Result(resps[2])[1] THEN Approach2Result(resps[2])[2]
    ELSE JStr(provide_local_writing_feedback(text[1]))

\* lines 402-456 run without interruption: the string grade_speaking_with_ai
\* returns for url when its requests end in resps, in order
speaking_alone(url, resps) ==
    IF NoAudioLink(url) THEN MSG_SPEAKING_UNAVAILABLE
    ELSE IF resps[1].kind = "exception"
    THEN "Error accessing audio URL: " \o resps[1].error
         \o "\n\nPlease ensure the audio link is correct and publicly accessible."
    ELSE IF resps[1].status # 200
    THEN "Error downloading audio from " \o url[1] \o ": HTTP " \o str_int(resps[1].status)
         \o "\n\nPlease verify the audio link is correct and publicly accessible."
    ELSE IF NoToken \/ ~Truthy(transcript_of(resps[2]))
    THEN provide_local_speaking_feedback(url[1], None)
    ELSE speaking_outcome(url[1], transcript_of(resps[2]),
                          call_hf_text_model_result(resps[3]))

\* lines 477-530 run without interruption: the response submit_exam returns
\* for the form fields of f when the requests of its evaluators end in
\* f.w_responses and f.s_responses
response_alone(f) ==
    LET res == compile_results(f.student_name, f.student_email,
                               Some(writing_alone(f.writing_text, f.w_responses)),
                               f.audio_url,
                               Some(speaking_alone(f.audio_url, f.s_responses)),
                               grade_objective_questions(f.listening_answers,
                                                         f.reading_answers))
        sent == send_email_report(TARGET_EMAIL, f.student_name, f.student_email, res)
    IN  JSONResponse([message |-> submit_message(sent), results |-> res])

\* C22: however the handlers of two submissions are interleaved at their
\* awaits, the response each of them returns is the one it would return when
\* processed alone with the same provider outcomes; and no step changes the
\* credential.
C22_InterleavedSubmissionsDoNotInterfere ==
    /\ [](\A f \in {Frame, suspended[1]} :
             f.submit_pc = "returned" => f.response = Some(response_alone(f)))
    /\ [][HF_TOKEN' = HF_TOKEN]_vars

\* C22 witness: one submission has been answered with feedback on its own
\* transcript while the handler of the other one is suspended at its
\* generative-text request, holding another transcript.
C22_Witness ==
    /\ SubmitReturned
    /\ student_name = Some("Anna")
    /\ transcript = JStr("Hello my name is Anna")
    /\ Returned.speaking_feedback
          = Some("TRANSCRIPTION:\nHello my name is Anna\n\nFEEDBACK:\nFluency: 6")
    /\ suspended[1].s_pc = "generate"
    /\ suspended[1].transcript = JStr("Hello I am Ben")

====
